---------------------------- MODULE Spec2Model ----------------------------
(***************************************************************************)
(* The weather forecast command line program: flag validation, one HTTP    *)
(* request, JSON decoding, the daily and hourly print loops and the scan    *)
(* that locates the current hour.                                           *)
(*                                                                          *)
(* Two builds of the program are in the repository.  "hour" is the build    *)
(* with findCurrentHourIndex (src/unnamed/part_000); "first" is the build   *)
(* that always prints the first five hours (src/main.go).                   *)
(*                                                                          *)
(* Numeric sequences ([]float64) are only ever indexed and printed, so each *)
(* is represented by its length.  Hourly.Time is a sequence of timestamp    *)
(* strings; a timestamp string is the record of its day, hour and minute    *)
(* fields plus a flag "junk" for text that does not fit the layout          *)
(* "2006-01-02T15:04".  Instants are minutes since day 0, 00:00 UTC.        *)
(* Go indices are kept 0-based; s[i] of the code is s[i+1] here.            *)
(***************************************************************************)
EXTENDS Integers, Sequences, FiniteSets, TLC

VARIABLES
    prog,          \* which build runs: "hour" or "first"
    nflag,         \* flag.NFlag(): number of flags set on the command line
    days,          \* *days
    pc,            \* position of main
    exitCode,      \* process exit status; -1 while running
    requests,      \* number of client.Get calls issued
    net,           \* what the network did on the request
    response,      \* *WeatherResponse: <<>> is nil, <<r>> points to r
    err,           \* error of GetWeatherForecast: <<>> is nil
    decoded,       \* json.Unmarshal was called
    out,           \* lines written to standard output
    now,           \* time.Now() as read by findCurrentHourIndex
    currentIndex,  \* currentIndex of main
    locErr         \* error of findCurrentHourIndex: <<>> is nil

vars == <<prog, nflag, days, pc, exitCode, requests, net, response, err,
          decoded, out, now, currentIndex, locErr>>

-----------------------------------------------------------------------------
(* Bounds of the model *)

MaxDays == 3
MaxHours == 6
MaxLen == 3

(* Program constants *)

DefaultDays == 2
HoursToPrint == 5
StatusOK == 200

-----------------------------------------------------------------------------
(* Small helpers *)

Range(s) == {s[k] : k \in 1..Len(s)}

SetMin(S) == CHOOSE x \in S : \A y \in S : x <= y

Line(kind, idx, stmt, label) ==
    [kind |-> kind, idx |-> idx, stmt |-> stmt, label |-> label]

Msg(kind) == Line(kind, -1, 0, "")

-----------------------------------------------------------------------------
(* Timestamps, time zones and the API's JSON document *)

Stamp(d, h, m) == [day |-> d, hour |-> h, min |-> m, junk |-> FALSE]

BadStamp == [day |-> 0, hour |-> 0, min |-> 0, junk |-> TRUE]

\* time.LoadLocation: "" and "UTC" are UTC, a known IANA name gives its zone
\* (Asia/Tokyo is UTC+9 all year), any other name is an error.
LoadLocation(name) ==
    IF name \in {"", "UTC"} THEN [ok |-> TRUE, offset |-> 0]
    ELSE IF name = "Asia/Tokyo" THEN [ok |-> TRUE, offset |-> 540]
    ELSE [ok |-> FALSE, offset |-> 0]

\* time.ParseInLocation("2006-01-02T15:04", timeStr, loc): text outside the
\* layout or a field out of range is an error; otherwise the wall-clock time
\* is taken as local to loc.
ParseInLocation(ts, loc) ==
    IF ts.junk \/ ts.hour > 23 \/ ts.min > 59
    THEN [ok |-> FALSE, t |-> 0]
    ELSE [ok |-> TRUE,
          t |-> ts.day * 1440 + ts.hour * 60 + ts.min - loc.offset]

HourlyValueKeys ==
    {"hourly.temperature_2m", "hourly.precipitation_probability",
     "hourly.precipitation"}

DailyValueKeys ==
    {"daily.temperature_2m_max", "daily.temperature_2m_min",
     "daily.precipitation_sum", "daily.rain_sum", "daily.precipitation_hours",
     "daily.precipitation_probability_max", "daily.wind_speed_10m_max"}

\* JSON null/absent key: the struct field keeps its zero value.
Field(doc, key, zero) == IF key \in DOMAIN doc THEN doc[key] ELSE zero

\* json.Unmarshal into WeatherResponse, for a document whose present keys
\* have the declared types.
Unmarshal(doc) ==
    [Timezone |-> Field(doc, "timezone", ""),
     Hourly |->
       [Time |-> Field(doc, "hourly.time", <<>>),
        Temperature2m |-> Field(doc, "hourly.temperature_2m", 0),
        PrecipitationProbability |->
            Field(doc, "hourly.precipitation_probability", 0),
        Precipitation |-> Field(doc, "hourly.precipitation", 0)],
     Daily |->
       [Time |-> Field(doc, "daily.time", 0),
        Temperature2mMax |-> Field(doc, "daily.temperature_2m_max", 0),
        Temperature2mMin |-> Field(doc, "daily.temperature_2m_min", 0),
        PrecipitationSum |-> Field(doc, "daily.precipitation_sum", 0),
        RainSum |-> Field(doc, "daily.rain_sum", 0),
        PrecipitationHours |-> Field(doc, "daily.precipitation_hours", 0),
        PrecipitationProbabilityMax |->
            Field(doc, "daily.precipitation_probability_max", 0),
        WindSpeed10mMax |-> Field(doc, "daily.wind_speed_10m_max", 0)]]

\* GetWeatherForecast without the status check.
GetWeatherForecastAnyStatus(env) ==
    IF ~env.send
    THEN [resp |-> <<>>, err |-> <<[kind |-> "request", code |-> 0]>>,
          decoded |-> FALSE]
    ELSE IF ~env.read
    THEN [resp |-> <<>>, err |-> <<[kind |-> "read", code |-> 0]>>,
          decoded |-> FALSE]
    ELSE IF env.body.kind # "ok"
    THEN [resp |-> <<>>, err |-> <<[kind |-> "parse", code |-> 0]>>,
          decoded |-> TRUE]
    ELSE [resp |-> <<Unmarshal(env.body.doc)>>, err |-> <<>>,
          decoded |-> TRUE]

\* GetWeatherForecast after the URL is built: one client.Get, then the
\* status check, the body read and the decode, each returning early.
\* env is what the network does: send (a response arrived), status, read
\* (the body could be read), body.kind ("syntax": not JSON, "mismatch": JSON
\* of the wrong shape, "ok") and body.doc.
GetWeatherForecast(env) ==
    IF ~env.send
    THEN [resp |-> <<>>, err |-> <<[kind |-> "request", code |-> 0]>>,
          decoded |-> FALSE]
    ELSE IF env.status # StatusOK
    THEN [resp |-> <<>>, err |-> <<[kind |-> "status", code |-> env.status]>>,
          decoded |-> FALSE]
    ELSE IF ~env.read
    THEN [resp |-> <<>>, err |-> <<[kind |-> "read", code |-> 0]>>,
          decoded |-> FALSE]
    ELSE IF env.body.kind # "ok"
    THEN [resp |-> <<>>, err |-> <<[kind |-> "parse", code |-> 0]>>,
          decoded |-> TRUE]
    ELSE [resp |-> <<Unmarshal(env.body.doc)>>, err |-> <<>>,
          decoded |-> TRUE]

-----------------------------------------------------------------------------
(* Locating the current hour *)

AfterOrEqual(t, u) == t >= u

\* forecastTime.After(currentTime)
After(t, u) == t > u

\* The scan with "break" where the code has "continue".
RECURSIVE ScanFromAbort(_, _, _, _)
ScanFromAbort(hourlyTimes, loc, t, i) ==
    IF i >= Len(hourlyTimes) THEN -1
    ELSE LET forecastTime == ParseInLocation(hourlyTimes[i + 1], loc)
         IN  IF ~forecastTime.ok THEN -1
             ELSE IF After(forecastTime.t, t) THEN i
             ELSE ScanFromAbort(hourlyTimes, loc, t, i + 1)

\* The range loop of findCurrentHourIndex from index i on: the index of the
\* first entry that parses and is after t, or -1 when the loop runs out.
RECURSIVE ScanFrom(_, _, _, _)
ScanFrom(hourlyTimes, loc, t, i) ==
    IF i >= Len(hourlyTimes) THEN -1
    ELSE LET forecastTime == ParseInLocation(hourlyTimes[i + 1], loc)
         IN  IF ~forecastTime.ok THEN ScanFrom(hourlyTimes, loc, t, i + 1)
             ELSE IF After(forecastTime.t, t) THEN i
             ELSE ScanFrom(hourlyTimes, loc, t, i + 1)

\* findCurrentHourIndex with time.Now() = t: the returned index, the returned
\* error and the lines it prints.
findCurrentHourIndex(hourlyTimes, timezone, t) ==
    LET loc == LoadLocation(timezone)
        i == ScanFrom(hourlyTimes, loc, t, 0)
    IN  IF ~loc.ok
        THEN [index |-> 0, err |-> <<[kind |-> "timezone", code |-> 0]>>,
              lines |-> <<>>]
        ELSE IF i >= 0
        THEN [index |-> i, err |-> <<>>,
              lines |-> <<Msg("current_time"), Line("found", i, 0, "")>>]
        ELSE [index |-> 0, err |-> <<>>,
              lines |-> <<Msg("current_time"), Msg("no_future")>>]

-----------------------------------------------------------------------------
(* The print loops of main *)

\* A Go index expression s[i] on a sequence of length n panics unless this.
InRange(n, i) == 0 <= i /\ i < n

\* The sequences each Printf of the daily loop body indexes, in the order
\* the statements run.
DailyReads ==
    << {"Time"},
       {"Temperature2mMin", "Temperature2mMax"},
       {"PrecipitationSum", "PrecipitationProbabilityMax"},
       {"RainSum", "PrecipitationHours"},
       {"WindSpeed10mMax"} >>

DayLabel(i) ==
    IF i = 0 THEN "Today"
    ELSE IF i = 1 THEN "Tomorrow"
    ELSE "Day " \o ToString(i + 1)

\* daysToShow := *days, lowered to len(response.Daily.Time)
DaysToShow(n, daily) == IF daily.Time < n THEN daily.Time ELSE n

\* One pass of the daily loop body for index i: the lines printed before the
\* first statement that indexes out of range, and whether one did.
DailyEntry(daily, i) ==
    LET bad == {k \in 1..Len(DailyReads) :
                    \E f \in DailyReads[k] : ~InRange(daily[f], i)}
        stop == IF bad = {} THEN Len(DailyReads) + 1 ELSE SetMin(bad)
    IN  [lines |-> [k \in 1..(stop - 1) |-> Line("daily", i, k, DayLabel(i))],
         panicked |-> bad # {}]

RECURSIVE DailyLoop(_, _, _)
DailyLoop(daily, i, daysToShow) ==
    IF ~(i < daysToShow) THEN [lines |-> <<>>, panicked |-> FALSE]
    ELSE LET e == DailyEntry(daily, i)
         IN  IF e.panicked THEN e
             ELSE LET rest == DailyLoop(daily, i + 1, daysToShow)
                  IN  [lines |-> e.lines \o rest.lines,
                       panicked |-> rest.panicked]

\* hoursToPrint after "Make sure we don't go beyond available data"
ClampHours(s, maxIndex) ==
    IF s + HoursToPrint > maxIndex THEN maxIndex - s ELSE HoursToPrint

HourlyReads == {"Temperature2m", "Precipitation", "PrecipitationProbability"}

\* The hourly loop of the build with findCurrentHourIndex, from j on.
RECURSIVE HourlyLoop(_, _, _, _)
HourlyLoop(hourly, s, j, hoursToPrint) ==
    IF ~(j < hoursToPrint) THEN [lines |-> <<>>, panicked |-> FALSE]
    ELSE LET idx == s + j
         IN  IF idx >= Len(hourly.Time)
             THEN [lines |-> <<>>, panicked |-> FALSE]
             ELSE IF \E f \in HourlyReads : ~InRange(hourly[f], idx)
             THEN [lines |-> <<>>, panicked |-> TRUE]
             ELSE LET rest == HourlyLoop(hourly, s, j + 1, hoursToPrint)
                  IN  [lines |-> <<Line("hourly", idx, 1, "")>> \o rest.lines,
                       panicked |-> rest.panicked]

\* hoursToPrint of the build without findCurrentHourIndex
FirstHours(hourly) ==
    IF Len(hourly.Time) < HoursToPrint THEN Len(hourly.Time) ELSE HoursToPrint

\* The hourly loop of the build without findCurrentHourIndex, from j on.
RECURSIVE FirstHoursLoop(_, _, _)
FirstHoursLoop(hourly, j, hoursToPrint) ==
    IF ~(j < hoursToPrint) THEN [lines |-> <<>>, panicked |-> FALSE]
    ELSE IF ~InRange(Len(hourly.Time), j)
              \/ \E f \in HourlyReads : ~InRange(hourly[f], j)
    THEN [lines |-> <<>>, panicked |-> TRUE]
    ELSE LET rest == FirstHoursLoop(hourly, j + 1, hoursToPrint)
         IN  [lines |-> <<Line("hourly", j, 1, "")>> \o rest.lines,
              panicked |-> rest.panicked]

-----------------------------------------------------------------------------
(* Inputs of a run *)

Programs == {"hour", "first"}

\* Values of -days: rejected ones, every count up to the data length, and 7,
\* the largest count the flag's help text names.
DaysSet == {-1, 0} \cup (1..MaxDays) \cup {7}

StatusCodes == {StatusOK, 404, 500}

Zones == {"UTC", "", "Asia/Tokyo", "Mars/Olympus"}

RunZones == {"UTC", "Mars/Olympus"}

\* An hourly series as the API sends it: ascending from day 1, 00:00, one
\* entry an hour; entry number bad (none, the first or the second) is garbled.
Series(n, bad) ==
    [k \in 1..n |-> IF k = bad THEN BadStamp ELSE Stamp(1, k - 1, 0)]

\* A document with every expected key, d days and h hours.
FullDoc(d, h, bad, tz) ==
    [key \in {"timezone", "hourly.time", "daily.time"}
              \cup HourlyValueKeys \cup DailyValueKeys |->
        IF key = "timezone" THEN tz
        ELSE IF key = "hourly.time" THEN Series(h, bad)
        ELSE IF key \in HourlyValueKeys THEN h
        ELSE d]

Without(doc, key) == [k \in DOMAIN doc \ {key} |-> doc[k]]

\* doc itself, doc with one key left out, and doc with one value sequence
\* one element shorter or longer than its time sequence.
Variants(doc) ==
    {doc}
    \cup {Without(doc, key) : key \in DOMAIN doc}
    \cup {[doc EXCEPT ![key] = doc[key] + 1] :
             key \in HourlyValueKeys \cup DailyValueKeys}
    \cup {[doc EXCEPT ![key] = doc[key] - 1] :
             key \in {k \in HourlyValueKeys \cup DailyValueKeys : doc[k] > 0}}

Docs ==
    UNION {Variants(FullDoc(d, h, bad, tz)) :
              d \in 0..MaxDays, h \in 0..MaxHours, bad \in 0..2, tz \in RunZones}

NoDoc == [key \in {"timezone"} |-> ""]

Bodies ==
    {[kind |-> "syntax", doc |-> NoDoc], [kind |-> "mismatch", doc |-> NoDoc]}
    \cup {[kind |-> "ok", doc |-> doc] : doc \in Docs}

\* What the network can do on one request.
HttpOutcomes ==
    {[send |-> FALSE, status |-> 0, read |-> FALSE,
      body |-> [kind |-> "syntax", doc |-> NoDoc]]}
    \cup [send : {TRUE}, status : StatusCodes, read : BOOLEAN, body : Bodies]

\* Values of time.Now() in a run: before the series, between its entries,
\* exactly on an entry, and after the series.
RunNows == {1440 - 60, 1440 + 30, 1440 + 120, 2 * 1440}

\* Inputs of findCurrentHourIndex taken on its own.
Stamps ==
    {BadStamp, Stamp(1, 0, 0), Stamp(1, 1, 0), Stamp(1, 2, 0), Stamp(1, 24, 0)}

RECURSIVE SeqsUpTo(_, _)
SeqsUpTo(S, n) ==
    IF n = 0 THEN {<<>>}
    ELSE LET shorter == SeqsUpTo(S, n - 1)
         IN  shorter \cup {Append(q, x) : q \in shorter, x \in S}

CallNows == {1440 + 30, 1440 + 60, 1440 - 540 + 30, 1440 - 540 + 60, 2 * 1440}

-----------------------------------------------------------------------------
(* A run of the program *)

Init ==
    /\ prog \in Programs
    /\ nflag \in {0, 1}
    /\ days \in (IF nflag = 0 THEN {DefaultDays} ELSE DaysSet)
    /\ pc = "start"
    /\ exitCode = -1
    /\ requests = 0
    /\ net = [send |-> FALSE, status |-> 0, read |-> FALSE, body |-> "none"]
    /\ response = <<>>
    /\ err = <<>>
    /\ decoded = FALSE
    /\ out = <<>>
    /\ now = 0
    /\ currentIndex = 0
    /\ locErr = <<>>

DaysNegative(n) == n < 0

\* if *days < 1
DaysInvalid(n) == n < 1

\* flag.Parse and the notice printed when no flag was given
ParseFlags ==
    /\ pc = "start"
    /\ out' = IF nflag = 0 THEN Append(out, Msg("usage")) ELSE out
    /\ pc' = "validate"
    /\ UNCHANGED <<prog, nflag, days, exitCode, requests, net, response, err,
                   decoded, now, currentIndex, locErr>>

\* "Error: Days must be at least 1", os.Exit(1)
RejectDays ==
    /\ pc = "validate"
    /\ DaysInvalid(days)
    /\ out' = Append(out, Msg("error_days"))
    /\ exitCode' = 1
    /\ pc' = "done"
    /\ UNCHANGED <<prog, nflag, days, requests, net, response, err, decoded,
                   now, currentIndex, locErr>>

\* response, err := GetWeatherForecast(*latitude, *longitude)
Fetch ==
    /\ pc = "validate"
    /\ ~DaysInvalid(days)
    /\ \E env \in HttpOutcomes :
          LET r == GetWeatherForecast(env)
          IN  /\ net' = [send |-> env.send, status |-> env.status,
                         read |-> env.read, body |-> env.body.kind]
              /\ response' = r.resp
              /\ err' = r.err
              /\ decoded' = r.decoded
    /\ requests' = requests + 1
    /\ pc' = "fetched"
    /\ UNCHANGED <<prog, nflag, days, exitCode, out, now, currentIndex, locErr>>

\* A failed fetch that is tried once more before giving up.
FetchFailedRetry ==
    /\ pc = "fetched"
    /\ err # <<>>
    /\ IF requests < 2
       THEN pc' = "validate" /\ out' = out /\ exitCode' = exitCode
       ELSE /\ out' = Append(out, Msg("error_fetch"))
            /\ exitCode' = 1
            /\ pc' = "done"
    /\ UNCHANGED <<prog, nflag, days, requests, net, response, err, decoded,
                   now, currentIndex, locErr>>

\* "Error getting weather forecast", os.Exit(1)
FetchFailed ==
    /\ pc = "fetched"
    /\ err # <<>>
    /\ out' = Append(out, Msg("error_fetch"))
    /\ exitCode' = 1
    /\ pc' = "done"
    /\ UNCHANGED <<prog, nflag, days, requests, net, response, err, decoded,
                   now, currentIndex, locErr>>

\* "Weather for: ..."
PrintHeader ==
    /\ pc = "fetched"
    /\ err = <<>>
    /\ out' = Append(out, Msg("header"))
    /\ pc' = "daily"
    /\ UNCHANGED <<prog, nflag, days, exitCode, requests, net, response, err,
                   decoded, now, currentIndex, locErr>>

\* The daily loop; an index out of range is a run-time panic, exit status 2.
RenderDaily ==
    /\ pc = "daily"
    /\ LET daily == response[1].Daily
           r == DailyLoop(daily, 0, DaysToShow(days, daily))
       IN  /\ out' = out \o r.lines
           /\ IF r.panicked
              THEN pc' = "done" /\ exitCode' = 2
              ELSE /\ pc' = IF prog = "hour" THEN "locate" ELSE "hourly"
                   /\ exitCode' = exitCode
    /\ UNCHANGED <<prog, nflag, days, requests, net, response, err, decoded,
                   now, currentIndex, locErr>>

\* currentIndex, err := findCurrentHourIndex(...); on error warn and use 0
LocateHour ==
    /\ pc = "locate"
    /\ \E t \in RunNows :
          LET r == findCurrentHourIndex(response[1].Hourly.Time,
                                        response[1].Timezone, t)
          IN  /\ now' = t
              /\ locErr' = r.err
              /\ currentIndex' = IF r.err # <<>> THEN 0 ELSE r.index
              /\ out' = IF r.err # <<>>
                        THEN Append(out \o r.lines, Msg("warning"))
                        ELSE out \o r.lines
    /\ pc' = "hourly"
    /\ UNCHANGED <<prog, nflag, days, exitCode, requests, net, response, err,
                   decoded>>

\* The hourly loop from currentIndex; falling off the end of main is exit 0.
RenderHourly ==
    /\ pc = "hourly"
    /\ prog = "hour"
    /\ LET hourly == response[1].Hourly
           r == HourlyLoop(hourly, currentIndex, 0,
                           ClampHours(currentIndex, Len(hourly.Time)))
       IN  /\ out' = Append(out, Msg("hourly_header")) \o r.lines
           /\ exitCode' = IF r.panicked THEN 2 ELSE 0
    /\ pc' = "done"
    /\ UNCHANGED <<prog, nflag, days, requests, net, response, err, decoded,
                   now, currentIndex, locErr>>

\* The hourly loop of the build that starts at the first hour.
RenderFirstHours ==
    /\ pc = "hourly"
    /\ prog = "first"
    /\ LET hourly == response[1].Hourly
           r == FirstHoursLoop(hourly, 0, FirstHours(hourly))
       IN  /\ out' = Append(out, Msg("hourly_header")) \o r.lines
           /\ exitCode' = IF r.panicked THEN 2 ELSE 0
    /\ pc' = "done"
    /\ UNCHANGED <<prog, nflag, days, requests, net, response, err, decoded,
                   now, currentIndex, locErr>>

Next ==
    \/ ParseFlags
    \/ RejectDays
    \/ Fetch
    \/ FetchFailed
    \/ PrintHeader
    \/ RenderDaily
    \/ LocateHour
    \/ RenderHourly
    \/ RenderFirstHours

Spec == Init /\ [][Next]_vars

-----------------------------------------------------------------------------
(* findCurrentHourIndex on its own: any sequence, any zone, any instant *)

InitCall ==
    /\ prog = "hour"
    /\ nflag = 0
    /\ days = DefaultDays
    /\ pc = "call"
    /\ exitCode = -1
    /\ requests = 0
    /\ net = [send |-> FALSE, status |-> 0, read |-> FALSE, body |-> "none"]
    /\ \E hourlyTimes \in SeqsUpTo(Stamps, MaxLen), timezone \in Zones :
          response = <<Unmarshal([key \in {"timezone", "hourly.time"} |->
                                     IF key = "timezone" THEN timezone
                                     ELSE hourlyTimes])>>
    /\ err = <<>>
    /\ decoded = FALSE
    /\ out = <<>>
    /\ now \in CallNows
    /\ currentIndex = 0
    /\ locErr = <<>>

CallFindCurrentHourIndex ==
    /\ pc = "call"
    /\ LET r == findCurrentHourIndex(response[1].Hourly.Time,
                                     response[1].Timezone, now)
       IN  /\ currentIndex' = r.index
           /\ locErr' = r.err
           /\ out' = r.lines
    /\ pc' = "returned"
    /\ UNCHANGED <<prog, nflag, days, exitCode, requests, net, response, err,
                   decoded, now>>

NextCall == CallFindCurrentHourIndex

SpecCall == InitCall /\ [][NextCall]_vars

-----------------------------------------------------------------------------
(* What was printed *)

HasLine(kind) == \E n \in 1..Len(out) : out[n].kind = kind

IsHourly(l) == l.kind = "hourly"

IsDaily(l) == l.kind = "daily"

\* Indices of the hourly entries printed, in print order.
HourlyPrinted ==
    LET ls == SelectSeq(out, IsHourly) IN [k \in 1..Len(ls) |-> ls[k].idx]

DailyPrinted == SelectSeq(out, IsDaily)

NoForecastOutput ==
    \A n \in 1..Len(out) :
        out[n].kind \notin {"header", "daily", "hourly_header", "hourly"}

Min2(a, b) == IF a < b THEN a ELSE b

Max2(a, b) == IF a > b THEN a ELSE b

\* Entries of the sequence that parse and lie strictly after "now".
FutureIndices(hourlyTimes, timezone, t) ==
    {k \in 0..(Len(hourlyTimes) - 1) :
        LET p == ParseInLocation(hourlyTimes[k + 1], LoadLocation(timezone))
        IN  p.ok /\ p.t > t}

Unparseable(ts, timezone) == ~ParseInLocation(ts, LoadLocation(timezone)).ok

\* All hourly sequences have one length, and all daily sequences have one.
Aligned(r) ==
    /\ \A f \in HourlyReads : r.Hourly[f] = Len(r.Hourly.Time)
    /\ \A k \in 1..Len(DailyReads) :
          \A f \in DailyReads[k] : r.Daily[f] = r.Daily.Time

-----------------------------------------------------------------------------
(* Claims *)

\* C1: with a resolvable timezone findCurrentHourIndex returns no error and
\* the index of the first entry strictly after "now", or 0 when no entry is
\* strictly after "now" (the empty sequence included); an entry equal to
\* "now" is not selected.
C1_LocateFirstAfter ==
    (pc = "returned" /\ LoadLocation(response[1].Timezone).ok) =>
        LET future == FutureIndices(response[1].Hourly.Time,
                                    response[1].Timezone, now)
        IN  /\ locErr = <<>>
            /\ \/ /\ currentIndex \in future
                  /\ \A j \in future : currentIndex <= j
               \/ /\ future = {}
                  /\ currentIndex = 0

\* C1 witness: an entry equal to "now" was passed over for a later one.
C1_Witness ==
    /\ pc = "returned"
    /\ locErr = <<>>
    /\ response[1].Timezone = "Asia/Tokyo"
    /\ currentIndex >= 1
    /\ \E k \in 1..currentIndex :
          LET p == ParseInLocation(response[1].Hourly.Time[k],
                                   LoadLocation(response[1].Timezone))
          IN  p.ok /\ p.t = now

\* C2: unparseable timestamps are skipped without ending the scan: the match
\* reported is never an unparseable entry, a parseable future entry after an
\* unparseable one is still found, the index counts unparseable entries, and
\* when every entry is unparseable the result is 0 without error.
\* ["bad", 00:00, 01:00] at 00:30 gives 2.
C2_SkipUnparseable ==
    (pc = "returned" /\ locErr = <<>>) =>
        LET times == response[1].Hourly.Time
            tz == response[1].Timezone
            matched == \E n \in 1..Len(out) :
                          out[n].kind = "found" /\ out[n].idx = currentIndex
        IN  /\ matched => ~Unparseable(times[currentIndex + 1], tz)
            /\ \A k \in FutureIndices(times, tz, now) :
                  matched /\ currentIndex <= k
            /\ (\A k \in 1..Len(times) : Unparseable(times[k], tz)) =>
                  (currentIndex = 0 /\ ~matched)
            /\ (/\ times = <<BadStamp, Stamp(1, 0, 0), Stamp(1, 1, 0)>>
                /\ tz = "UTC"
                /\ now = 1440 + 30) => currentIndex = 2

\* C2 witness: the example of the claim.
C2_Witness ==
    /\ pc = "returned"
    /\ response[1].Hourly.Time = <<BadStamp, Stamp(1, 0, 0), Stamp(1, 1, 0)>>
    /\ response[1].Timezone = "UTC"
    /\ now = 1440 + 30
    /\ locErr = <<>>
    /\ currentIndex = 2

\* C3: hourly rendering prints exactly max(0, min(5, L - s)) entries, those
\* at indices s, s+1, ... in ascending order.
C3_HourlyWindow ==
    (pc = "done" /\ HasLine("hourly_header")) =>
        LET count == Max2(0, Min2(5, Len(response[1].Hourly.Time) - currentIndex))
        IN  HourlyPrinted = [k \in 1..count |-> currentIndex + k - 1]

\* C3 on aligned responses: the same statement for responses whose hourly
\* sequences have one length.
C3_HourlyWindowAligned ==
    (response # <<>> /\ Aligned(response[1])) => C3_HourlyWindow

\* C4: daily rendering prints exactly min(N, D) entries, indices
\* 0..min(N,D)-1 in ascending order, labelled Today, Tomorrow, Day {i+1}.
C4_DailyCount ==
    (pc \in {"locate", "hourly", "done"} /\ HasLine("header")) =>
        LET count == Min2(days, response[1].Daily.Time)
            stmts == Len(DailyReads)
        IN  DailyPrinted =
              [k \in 1..(count * stmts) |->
                 LET i == (k - 1) \div stmts
                 IN  Line("daily", i, ((k - 1) % stmts) + 1,
                          IF i = 0 THEN "Today"
                          ELSE IF i = 1 THEN "Tomorrow"
                          ELSE IF i = 2 THEN "Day 3"
                          ELSE "Day " \o ToString(i + 1))]

\* C4 on aligned responses.
C4_DailyCountAligned ==
    (response # <<>> /\ Aligned(response[1])) => C4_DailyCount

\* C5: when -days is less than 1 no request is ever made and no forecast
\* output is printed, and the run ends with the error message and status 1.
C5_InvalidDaysNoFetch ==
    days < 1 =>
        /\ requests = 0
        /\ ~net.send
        /\ response = <<>>
        /\ NoForecastOutput
        /\ pc \in {"start", "validate", "done"}
        /\ pc = "done" => (exitCode = 1 /\ HasLine("error_days"))

\* C5 witness: a run with -days=0 has ended.
C5_Witness == days = 0 /\ pc = "done" /\ exitCode = 1

\* C6: every fetch failure (not sent, status not 200, body not read, body
\* not decodable) gives an error and no response, no header or entry is
\* printed and the run ends with status 1; a status other than 200 gives an
\* error carrying that status whatever the body, and the body is not decoded.
C6_FetchFailureFatal ==
    /\ (/\ requests >= 1
        /\ (~net.send \/ net.status # 200 \/ ~net.read \/ net.body # "ok")) =>
          /\ err # <<>>
          /\ response = <<>>
          /\ NoForecastOutput
          /\ pc \in {"fetched", "done"}
          /\ pc = "done" => (exitCode = 1 /\ HasLine("error_fetch"))
    /\ (net.send /\ net.status # 200) =>
          /\ err = <<[kind |-> "status", code |-> net.status]>>
          /\ ~decoded

\* C6 witness: a run that got HTTP 500 with a well-formed body has ended.
C6_Witness ==
    /\ pc = "done"
    /\ net.send /\ net.status = 500 /\ net.read /\ net.body = "ok"
    /\ err # <<>> /\ err[1].code = 500
    /\ exitCode = 1

\* C7: when the timezone cannot be resolved the caller warns and uses index
\* 0, the hourly summary is rendered from index 0 and the run ends with
\* status 0.
C7_TimezoneRecovered ==
    /\ (pc \in {"hourly", "done"} /\ HasLine("header") /\ prog = "hour"
          /\ exitCode # 2 /\ ~LoadLocation(response[1].Timezone).ok) =>
          locErr # <<>>
    /\ locErr # <<>> => (currentIndex = 0 /\ HasLine("warning"))
    /\ (pc = "done" /\ locErr # <<>>) =>
          /\ exitCode = 0
          /\ HourlyPrinted =
               [k \in 1..Min2(5, Len(response[1].Hourly.Time)) |-> k - 1]

\* C7 on aligned responses.
C7_TimezoneRecoveredAligned ==
    (response # <<>> /\ Aligned(response[1])) => C7_TimezoneRecovered

\* C8: every response the fetch returns has hourly sequences of one common
\* length and daily sequences of one common length.
C8_EqualLengths == response # <<>> => Aligned(response[1])

\* C9: at most one request per run, exactly one once a run with a valid day
\* count has ended, and none after a failed one.
C9_OneRequest ==
    /\ requests <= 1
    /\ (pc = "done" /\ days >= 1) => requests = 1
    /\ err # <<>> => requests = 1

\* C9 witness: a run whose only request failed has ended.
C9_Witness == pc = "done" /\ err # <<>> /\ requests = 1 /\ exitCode = 1

\* C10: after a successful fetch every index read is in range, so the run
\* ends with status 0; the exit status of any run is 0 or 1.
C10_NoOutOfRange ==
    pc = "done" =>
        /\ exitCode \in {0, 1}
        /\ (requests = 1 /\ err = <<>>) => exitCode = 0

\* C10 on aligned responses.
C10_NoOutOfRangeAligned ==
    (response = <<>> \/ Aligned(response[1])) => C10_NoOutOfRange

=============================================================================
